---- MODULE Spec2Model ----
(***************************************************************************)
(* Model of the `threaded` thread pool (src/src/lib.rs).                   *)
(*                                                                         *)
(* One owner thread constructs a ThreadPool, calls execute any number of   *)
(* times and finally drops the pool.  Every Worker is an OS thread looping *)
(* on receiver.recv().  The crossbeam unbounded channel is a FIFO sequence *)
(* whose send appends and whose recv removes the head atomically.          *)
(***************************************************************************)
EXTENDS Integers, Sequences, FiniteSets, TLC

\* Largest capacity passed to ThreadPool::new (0 is passed as well).
MaxCap == 2
\* Largest number of execute calls made on one pool.
MaxJobs == 2

VARIABLES
    pool,       \* position of the owner thread in the pool's life
    capacity,   \* argument given to ThreadPool::new
    channel,    \* "none" before unbounded() ran, then "open"
    sender,     \* TRUE while the pool's Sender<Message> is alive
    workers,    \* ThreadPool.workers: Vec<Worker>, each with its Option<JoinHandle>
    threads,    \* position of every spawned worker thread
    current,    \* the message a worker thread is processing (NoMessage: none)
    queue,      \* messages in the channel, oldest first
    sent,       \* number of messages sent so far; a message's id is its rank
    submitted,  \* the jobs given to execute, in call order
    di,         \* index of the running for loop of drop
    resized,    \* <<c>> when the owner's latest call on the pool was resize(c)
    unwinding,  \* TRUE when drop runs while the owner unwinds from a panic
    log         \* history: what the worker threads did, in order

vars == <<pool, capacity, channel, sender, workers, threads, current, queue, sent, submitted, di, resized, unwinding, log>>

----------------------------------------------------------------------------
(* Messages (enum Message) *)

NewJob(id, panics) == [type |-> "NewJob", id |-> id, panics |-> panics]

Terminate(id) == [type |-> "Terminate", id |-> id, panics |-> FALSE]

\* What `current` holds for a worker thread that is not running a job.
NoMessage == [type |-> "None", id |-> 0, panics |-> FALSE]

(* Channel operations of crossbeam::channel *)

\* A send on an unbounded channel appends the message to the queue.
SendFront(q, m) == <<m>> \o q
Send(q, m) == Append(q, m)

\* recv takes the oldest message out of the channel: the message received
\* and the messages left behind.
RecvNewest(q) == [msg |-> q[Len(q)], rest |-> SubSeq(q, 1, Len(q) - 1)]
RecvPeek(q) == [msg |-> Head(q), rest |-> q]
Recv(q) == [msg |-> Head(q), rest |-> Tail(q)]

\* Worker threads that have not ended.
Live == {w \in DOMAIN threads : threads[w] \in {"recv", "running"}}

\* Receivers alive: the pool's own field plus the clone moved into every
\* worker thread's closure.
ReceiversOfWorkers == Cardinality(Live)
Receivers == (IF sender THEN 1 ELSE 0) + Cardinality(Live)

----------------------------------------------------------------------------
(* ThreadPool::new *)

\* The workers spawned by new(c): one Worker per iteration of 0..capacity.
SpawnOneLess(c) == [w \in 1..(c - 1) |-> [thread |-> "Some"]]
Spawn(c) == [w \in 1..c |-> [thread |-> "Some"]]

\* assert!(capacity > 0)
AssertNone(c) == TRUE
AssertCapacity(c) == c > 0

New(c) ==
    /\ pool = "none"
    /\ capacity' = c
    /\ IF AssertCapacity(c)
       THEN /\ pool' = "alive"
            /\ channel' = "open"
            /\ sender' = TRUE
            /\ workers' = Spawn(c)
            /\ threads' = [w \in DOMAIN Spawn(c) |-> "recv"]
            /\ current' = [w \in DOMAIN Spawn(c) |-> NoMessage]
       ELSE /\ pool' = "new_panicked"
            /\ UNCHANGED <<channel, sender, workers, threads, current>>
    /\ UNCHANGED <<queue, sent, submitted, di, resized, unwinding, log>>

\* ThreadPool::capacity
Capacity == Len(workers)

(* ThreadPool::resize *)

\* Largest argument given to resize: one more than any capacity, so that a
\* pool can be asked to grow as well as to shrink.
MaxResize == MaxCap + 1

\* The workers of the pool after resize(c): the body after the assertion is
\* `// fixme`, the Vec is not touched.
ResizeWorkersTo(c) ==
    [w \in 1..c |-> IF w <= Len(workers) THEN workers[w] ELSE [thread |-> "Some"]]
ResizeWorkers(c) == workers

\* resize(0) panics at the assertion: the pool is untouched and stays usable
\* if the owner catches the panic; `resized` keeps the failed call.
Resize(c) ==
    /\ pool = "alive"
    /\ resized' = <<c>>
    /\ IF AssertCapacity(c)
       THEN workers' = ResizeWorkers(c)
       ELSE workers' = workers
    /\ UNCHANGED <<pool, capacity, channel, sender, threads, current, queue, sent,
                   submitted, di, unwinding, log>>

(* ThreadPool::execute *)

Execute(panics) ==
    /\ pool = "alive"
    /\ Len(submitted) < MaxJobs
    /\ IF Receivers > 0
       THEN /\ queue' = Send(queue, NewJob(sent + 1, panics))
            /\ sent' = sent + 1
            /\ submitted' = Append(submitted, NewJob(sent + 1, panics))
            /\ pool' = pool
       ELSE /\ pool' = "execute_panicked"
            /\ UNCHANGED <<queue, sent, submitted>>
    /\ resized' = <<>>
    /\ UNCHANGED <<capacity, channel, sender, workers, threads, current, di, unwinding, log>>

----------------------------------------------------------------------------
(* The worker thread: the loop of the closure in Worker::new *)

Event(ev, w, id) == [ev |-> ev, w |-> w, id |-> id]

\* No thread takes a step once the process has been aborted.
ProcessRuns == pool # "aborted"

\* A worker thread calls recv only at the top of its loop: job() is called
\* on the worker thread itself and the loop goes on when it has returned.
CanRecvWhileRunning(w) == threads[w] \in {"recv", "running"}
CanRecv(w) == threads[w] = "recv"

\* Message::Terminate => break: the closure returns and the thread ends.
AfterTerminateContinue == "recv"
AfterTerminate == "exited"

\* receiver.recv().unwrap() followed by the match on the message.  recv blocks
\* while the channel is empty and has a sender; on an empty channel whose
\* sender is dropped it gives Err, and unwrap() panics on the worker thread.
WorkerRecv(w) ==
    /\ ProcessRuns
    /\ w \in DOMAIN threads
    /\ CanRecv(w)
    /\ queue # <<>> \/ ~sender
    /\ IF queue # <<>>
       THEN LET m == Recv(queue).msg IN
            /\ queue' = Recv(queue).rest
            /\ log' = Append(log, Event("recv", w, m.id))
            /\ IF m.type = "NewJob"
               THEN /\ threads' = [threads EXCEPT ![w] = "running"]
                    /\ current' = [current EXCEPT ![w] = m]
               ELSE /\ threads' = [threads EXCEPT ![w] = AfterTerminate]
                    /\ current' = current
       ELSE /\ threads' = [threads EXCEPT ![w] = "panicked"]
            /\ log' = Append(log, Event("disconnected", w, 0))
            /\ UNCHANGED <<queue, current>>
    /\ UNCHANGED <<pool, capacity, channel, sender, workers, sent, submitted, di, resized, unwinding>>

\* The state of a worker thread whose job panicked: the thread unwinds.
AfterPanicRespawn == "recv"
AfterPanic == "panicked"

\* job() returns, or panics and unwinds the worker thread.
JobEnd(w) ==
    /\ ProcessRuns
    /\ w \in DOMAIN threads
    /\ threads[w] = "running"
    /\ IF current[w].panics
       THEN /\ threads' = [threads EXCEPT ![w] = AfterPanic]
            /\ log' = Append(log, Event("panic", w, current[w].id))
       ELSE /\ threads' = [threads EXCEPT ![w] = "recv"]
            /\ log' = Append(log, Event("return", w, current[w].id))
    /\ current' = [current EXCEPT ![w] = NoMessage]
    /\ UNCHANGED <<pool, capacity, channel, sender, workers, queue, sent, submitted, di, resized, unwinding>>

----------------------------------------------------------------------------
(* impl Drop for ThreadPool *)

\* The owner drops the pool: drop(&mut self) is entered, in normal control
\* flow (u = FALSE) or while the owner unwinds from a panic of its own with
\* the pool in scope (u = TRUE), such as an uncaught resize(0) or a failed
\* assertion of the caller.
DropBegin(u) ==
    /\ pool = "alive"
    /\ pool' = "drop_send"
    /\ di' = 1
    /\ resized' = <<>>
    /\ unwinding' = u
    /\ UNCHANGED <<capacity, channel, sender, workers, threads, current, queue, sent, submitted, log>>

\* Number of iterations of `for _ in &self.workers`.
TerminatesOneLess == Len(workers) - 1
Terminates == Len(workers)

\* One iteration of the first loop: sender.send(Message::Terminate).unwrap()
DropSend ==
    /\ pool = "drop_send"
    /\ IF di <= Terminates
       THEN /\ queue' = Send(queue, Terminate(sent + 1))
            /\ sent' = sent + 1
            /\ di' = di + 1
            /\ pool' = pool
       ELSE /\ pool' = "drop_join"
            /\ di' = 1
            /\ UNCHANGED <<queue, sent>>
    /\ UNCHANGED <<capacity, channel, sender, workers, threads, current, submitted,
                   resized, unwinding, log>>

\* First half of an iteration of the second loop: worker.thread.take() leaves
\* None in the Worker at once, before the join.
DropTake ==
    /\ pool = "drop_join"
    /\ di <= Len(workers)
    /\ workers[di].thread = "Some"
    /\ workers' = [workers EXCEPT ![di].thread = "None"]
    /\ UNCHANGED <<pool, capacity, channel, sender, threads, current, queue, sent,
                   submitted, di, resized, unwinding, log>>

\* thread.join() returns once the thread has ended.
JoinNoWait(w) == TRUE
JoinReturns(w) == threads[w] \in {"exited", "panicked"}

\* thread.join() gives Err when the thread panicked; unwrap() panics on Err.
JoinErrIgnored(w) == FALSE
JoinIsErr(w) == threads[w] = "panicked"

\* Second half: thread.join().unwrap() blocks until the worker thread has
\* ended.  join() gives Err when the thread panicked, and unwrap() then panics
\* in drop: the owner unwinds out of drop.  When drop is left, by return or by
\* panic, the fields (workers, sender, receiver) are dropped.
DropJoin ==
    /\ pool = "drop_join"
    /\ di <= Len(workers)
    /\ workers[di].thread = "None"
    /\ JoinReturns(di)
    /\ IF JoinIsErr(di)
       THEN /\ pool' = "drop_panicked"
            /\ sender' = FALSE
            /\ di' = di
       ELSE IF di = Len(workers)
       THEN /\ pool' = "dropped"
            /\ sender' = FALSE
            /\ di' = di
       ELSE /\ pool' = pool
            /\ sender' = sender
            /\ di' = di + 1
    /\ UNCHANGED <<capacity, channel, workers, threads, current, queue, sent, submitted,
                   resized, unwinding, log>>

\* The panic of unwrap() left drop while the owner was unwinding already:
\* once the fields are dropped, the second panic reaches the cleanup of the
\* first one and the process is aborted, with every worker thread.
Abort ==
    /\ pool = "drop_panicked"
    /\ unwinding
    /\ pool' = "aborted"
    /\ UNCHANGED <<capacity, channel, sender, workers, threads, current, queue, sent,
                   submitted, di, resized, unwinding, log>>

----------------------------------------------------------------------------

Init ==
    /\ pool = "none"
    /\ capacity = 0
    /\ channel = "none"
    /\ sender = FALSE
    /\ workers = <<>>
    /\ threads = <<>>
    /\ current = <<>>
    /\ queue = <<>>
    /\ sent = 0
    /\ submitted = <<>>
    /\ di = 0
    /\ resized = <<>>
    /\ unwinding = FALSE
    /\ log = <<>>

Next ==
    \/ \E c \in 0..MaxCap : New(c)
    \/ \E c \in 0..MaxResize : Resize(c)
    \/ \E panics \in BOOLEAN : Execute(panics)
    \/ \E w \in 1..MaxCap : WorkerRecv(w)
    \/ \E w \in 1..MaxCap : JobEnd(w)
    \/ \E u \in BOOLEAN : DropBegin(u)
    \/ DropSend
    \/ DropTake
    \/ DropJoin
    \/ Abort

Spec == Init /\ [][Next]_vars

\* The worker threads and the thread running drop are scheduled fairly.
Fairness ==
    /\ \A w \in 1..MaxCap : WF_vars(WorkerRecv(w)) /\ WF_vars(JobEnd(w))
    /\ WF_vars(DropSend)
    /\ WF_vars(DropTake)
    /\ WF_vars(DropJoin)
    /\ WF_vars(Abort)

FairSpec == Init /\ [][Next]_vars /\ Fairness

----------------------------------------------------------------------------
(* Reading the history *)

\* How often an event of kind ev was logged for message id.
Count(ev, id) == Cardinality({i \in DOMAIN log : log[i].ev = ev /\ log[i].id = id})

\* Positions of the log where a job panicked on its worker.
Panics == {i \in DOMAIN log : log[i].ev = "panic"}

JobIds == {submitted[i].id : i \in DOMAIN submitted}

NoJobPanics == \A i \in DOMAIN submitted : ~submitted[i].panics

\* The pool value exists: new has returned it and drop has not been left.
PoolExists == pool \in {"alive", "drop_send", "drop_join"}

\* Positions of the log where worker w received a Terminate.
TerminatesTaken(w) ==
    {i \in DOMAIN log : log[i].ev = "recv" /\ log[i].w = w /\ log[i].id \notin JobIds}

\* Terminate messages sent so far: those still queued and those received.
TerminatesSent ==
    Cardinality({i \in DOMAIN queue : queue[i].type = "Terminate"})
    + Cardinality({i \in DOMAIN log : log[i].ev = "recv" /\ log[i].id \notin JobIds})

\* Worker threads that have ended, by break or by a panic.
Ended == {w \in DOMAIN threads : threads[w] \in {"exited", "panicked"}}

\* Accepted jobs not yet received by a worker, all of whose predecessors
\* return.  The i-th job submitted has message id i.
Waiting ==
    {i \in DOMAIN submitted :
        /\ \A k \in 1..(i - 1) : ~submitted[k].panics
        /\ Count("recv", submitted[i].id) = 0}

\* Jobs started and not yet ended.
InExecution ==
    {id \in JobIds : Count("recv", id) > Count("return", id) + Count("panic", id)}

----------------------------------------------------------------------------
(* Properties *)

\* C1: when drop has returned and no submitted job panics, every submitted
\* job was started exactly once and ran to completion exactly once.
C1_JobsRunExactlyOnce ==
    (pool = "dropped" /\ NoJobPanics) =>
        \A j \in JobIds : Count("recv", j) = 1 /\ Count("return", j) = 1

C1_Witness ==
    /\ pool = "dropped"
    /\ capacity = 2
    /\ Len(submitted) >= 2
    /\ \E i, k \in DOMAIN log :
        /\ log[i].ev = "return" /\ log[k].ev = "return"
        /\ log[i].w # log[k].w

\* C2: when drop has returned, every worker thread has exited and no job is
\* executing on any worker.
C2_DropIsBlockingDrain ==
    pool = "dropped" =>
        \A w \in DOMAIN threads : threads[w] = "exited" /\ current[w] = NoMessage

C2_Witness ==
    /\ pool = "dropped"
    /\ capacity >= 2
    /\ Len(submitted) >= 1
    /\ \A w \in DOMAIN threads : threads[w] = "exited"

\* C3: from construction until teardown begins, capacity() is the capacity
\* given to new, which is positive.
C3_CapacityIsConstant ==
    pool = "alive" => (Capacity = capacity /\ Capacity > 0)

C3_Witness ==
    /\ pool = "alive"
    /\ Capacity = 2
    /\ Len(submitted) >= 2
    /\ \E w \in DOMAIN threads : threads[w] = "running"
    /\ \E i \in DOMAIN log : log[i].ev = "return"

\* C4: new(0) never gives a pool; it panics with no channel created and no
\* worker spawned.
C4_NewZeroPanics ==
    /\ (pool # "none" /\ capacity = 0) => pool = "new_panicked"
    /\ pool = "new_panicked" =>
        /\ capacity = 0
        /\ channel = "none"
        /\ ~sender
        /\ workers = <<>>
        /\ threads = <<>>
        /\ queue = <<>>

C4_Witness == pool = "new_panicked" /\ capacity = 0

\* C5: every message is received by at most one worker and at most once, so
\* a job is started at most once and ends at most once.
C5_DestructiveReceive ==
    \A id \in 1..sent :
        /\ Count("recv", id) <= 1
        /\ Count("return", id) + Count("panic", id) <= 1

C5_Witness ==
    /\ capacity = 2
    /\ queue = <<>>
    /\ \A id \in 1..sent : Count("recv", id) = 1
    /\ Len(submitted) >= 2
    /\ \E i, k \in DOMAIN log :
        /\ log[i].ev = "recv" /\ log[k].ev = "recv"
        /\ log[i].w # log[k].w
        /\ log[i].id \in JobIds /\ log[k].id \in JobIds

\* C6: with capacity 1 a job starts only after every job submitted before it
\* has returned, and when drop has returned every job ran exactly once.
C6_SingleWorkerFifo ==
    capacity = 1 =>
        /\ \A k \in DOMAIN log :
            (log[k].ev = "recv" /\ log[k].id \in JobIds) =>
                \A a \in JobIds :
                    a < log[k].id =>
                        \E i \in 1..(k - 1) : log[i].ev = "return" /\ log[i].id = a
        /\ pool = "dropped" =>
            \A j \in JobIds : Count("recv", j) = 1 /\ Count("return", j) = 1

C6_Witness ==
    /\ capacity = 1
    /\ pool = "dropped"
    /\ Len(submitted) >= 2

\* C7: under fair scheduling, when drop has begun and no submitted job
\* panics, every worker eventually exits and drop returns.
C7_TeardownTerminates ==
    (pool = "drop_send" /\ NoJobPanics) ~>
        (pool = "dropped" /\ \A w \in DOMAIN threads : threads[w] = "exited")

C7_Witness ==
    /\ pool = "dropped"
    /\ capacity = MaxCap
    /\ Len(submitted) = MaxJobs
    /\ NoJobPanics

\* C9: once a job has panicked on a worker, that worker's thread has ended
\* and does nothing more, no thread is added, capacity() is still the
\* construction-time capacity and fewer workers than that are live.
C9_PanicShrinksLiveWorkers ==
    \A i \in Panics :
        /\ threads[log[i].w] = "panicked"
        /\ \A k \in DOMAIN log : k > i => log[k].w # log[i].w
        /\ DOMAIN threads = 1..capacity
        /\ PoolExists => (Capacity = capacity /\ Cardinality(Live) < Capacity)

C9_Witness ==
    /\ pool = "alive"
    /\ capacity = 2
    /\ Panics # {}
    /\ \E i \in DOMAIN log : \E p \in Panics : i > p /\ log[i].ev = "return"

\* C10 as stated: after a job has panicked on a worker, no pool operation
\* (execute, teardown) fails.
C10_NoOperationReportsPanic ==
    Panics # {} => pool \notin {"execute_panicked", "drop_panicked", "aborted"}

\* C10 amended: the worker does not catch the panic and execute does not
\* fail on account of it, but teardown does: drop panics exactly when it joins
\* a worker whose job panicked (which aborts the process when the owner was
\* unwinding already), and never returns normally after a panic.
C10_TeardownReportsPanic ==
    /\ \A i \in Panics : threads[log[i].w] = "panicked"
    /\ Panics # {} => pool \notin {"execute_panicked", "dropped"}
    /\ pool \in {"drop_panicked", "aborted"} =>
        /\ \E i \in Panics : log[i].w = di /\ workers[di].thread = "None"
        /\ pool = "aborted" => unwinding

C10_Witness ==
    /\ pool = "drop_panicked"
    /\ capacity = 2
    /\ di = 2
    /\ Panics # {}

\* C11: a call resize(c) with c > 0 changes nothing: not the workers, not
\* capacity(), not the queue, not any worker thread.
C11_ResizeHasNoEffect ==
    [][(resized' # <<>> /\ resized' # resized /\ resized'[1] > 0) =>
        /\ UNCHANGED <<pool, capacity, channel, sender, workers, threads,
                       current, queue, sent, submitted, di, unwinding, log>>
        /\ Capacity' = Capacity]_vars

C11_Witness ==
    /\ pool = "alive"
    /\ resized = <<MaxResize>>
    /\ capacity = 2
    /\ queue # <<>>
    /\ \E w \in DOMAIN threads : threads[w] = "running"

\* C12: after resize(c) with c > 0 on a live pool, capacity() is c.
C12_ResizeSetsCapacity ==
    (pool = "alive" /\ resized # <<>> /\ resized[1] > 0) => Capacity = resized[1]

\* C13: while the pool is alive execute does not fail: the channel always has
\* a receiver, whatever the queue holds and also when every worker has died.
C13_ExecuteNeverFails ==
    /\ pool # "execute_panicked"
    /\ pool = "alive" => Receivers > 0

C13_Witness ==
    /\ pool = "alive"
    /\ capacity = 1
    /\ Live = {}
    /\ Panics # {}
    /\ Len(submitted) = 2
    /\ Len(queue) = 1
    /\ queue[1].id = 2

\* C14 as stated: some execution of teardown has one worker receive more
\* than one Terminate while another worker is still running a job.
C14_WorkerTakesTwoTerminates ==
    <>(\E w, v \in DOMAIN threads :
        /\ w # v
        /\ Cardinality(TerminatesTaken(w)) > 1
        /\ threads[v] = "running")

\* C14 amended: any worker may receive any of the Terminates, but a worker
\* exits on the first one it receives, so no worker ever receives more than
\* one, also while another worker is still running a job.
C14_AtMostOneTerminate ==
    \A w \in DOMAIN threads :
        /\ Cardinality(TerminatesTaken(w)) <= 1
        /\ threads[w] = "exited" <=> Cardinality(TerminatesTaken(w)) = 1

C14_Witness ==
    \E w, v \in DOMAIN threads :
        /\ w # v
        /\ threads[w] = "exited"
        /\ threads[v] = "running"
        /\ pool = "drop_join"
        /\ queue # <<>>
        /\ \A i \in DOMAIN queue : queue[i].type = "Terminate"

\* C15 as stated: every worker whose thread has ended has received a
\* Terminate, and once teardown is over every thread handle has been taken.
C15_EndsOnlyOnTerminate ==
    /\ \A w \in Ended : TerminatesTaken(w) # {}
    /\ pool \in {"dropped", "drop_panicked"} =>
        \A w \in DOMAIN workers : workers[w].thread = "None"

\* C15 amended: a worker thread ends only by receiving a Terminate or by a
\* panic of its job, and an ended thread does nothing more; a thread handle
\* is taken only by drop's join loop, in the order of the workers and never
\* twice, the join of a taken handle returns only when that thread has ended,
\* and every handle has been taken when drop returns.
C15_WorkerLifecycle ==
    [][/\ \A w \in DOMAIN threads' :
            /\ threads'[w] = "exited" => Cardinality(TerminatesTaken(w)') = 1
            /\ threads'[w] = "panicked" => \E i \in Panics' : log'[i].w = w
            /\ threads'[w] \in {"recv", "running"} => TerminatesTaken(w)' = {}
       /\ \A w \in Ended :
            /\ threads'[w] = threads[w]
            /\ log' # log => log'[Len(log')].w # w
       /\ \A w \in DOMAIN workers :
            /\ workers[w].thread = "None" => workers'[w].thread = "None"
            /\ (workers[w].thread = "Some" /\ workers'[w].thread = "None") =>
                (pool = "drop_join" /\ w = di)
       /\ (pool = "drop_join" /\ (di' # di \/ pool' # pool)) =>
            (workers[di].thread = "None" /\ di \in Ended)
       /\ pool' = "dropped" =>
            \A w \in DOMAIN workers' : workers'[w].thread = "None"]_vars

C15_Witness ==
    /\ capacity = 2
    /\ pool = "drop_join"
    /\ threads[1] = "exited"
    /\ workers[1].thread = "None"
    /\ threads[2] = "panicked"
    /\ workers[2].thread = "Some"

\* C16: drop sends exactly one Terminate per owned worker, none before drop
\* and all of them before the first handle is taken for a join.
C16_OneTerminatePerWorker ==
    /\ pool \in {"none", "new_panicked", "alive", "execute_panicked"} =>
        TerminatesSent = 0
    /\ pool = "drop_send" => (TerminatesSent = di - 1 /\ TerminatesSent <= Len(workers))
    /\ pool \in {"drop_join", "dropped", "drop_panicked", "aborted"} =>
        (TerminatesSent = Len(workers) /\ TerminatesSent = capacity)
    /\ (\E w \in DOMAIN workers : workers[w].thread = "None") =>
        TerminatesSent = Len(workers)

C16_Witness ==
    /\ pool = "drop_join"
    /\ di = 1
    /\ capacity = 2
    /\ TerminatesSent = 2
    /\ Len(submitted) >= 1
    /\ \A w \in DOMAIN workers : workers[w].thread = "Some"

\* C17: a worker receives no message while it runs a job: between two
\* receives of one worker its job has returned, and the jobs in execution
\* are never more than capacity.
C17_OneJobAtATime ==
    /\ \A i, k \in DOMAIN log :
        (i < k /\ log[i].ev = "recv" /\ log[k].ev = "recv" /\ log[i].w = log[k].w) =>
            \E j \in (i + 1)..(k - 1) : log[j].ev = "return" /\ log[j].w = log[i].w
    /\ \A w \in DOMAIN threads : threads[w] = "running" <=> current[w] # NoMessage
    /\ Cardinality(InExecution) = Cardinality({w \in DOMAIN threads : threads[w] = "running"})
    /\ Cardinality(InExecution) <= capacity
    /\ PoolExists => Cardinality(InExecution) <= Capacity

C17_Witness ==
    /\ PoolExists
    /\ capacity = 2
    /\ Cardinality(InExecution) = 2
    /\ queue # <<>>

\* C18: under fair scheduling of the workers, a job that execute accepted is
\* eventually received and started by a worker when every job submitted
\* before it returns, also when the pool is never dropped: a job leaves
\* Waiting only by being received, so whenever such jobs wait, eventually all
\* of them have been started.
C18_AcceptedJobStarts == (Waiting # {}) ~> (Waiting = {})

C18_Witness ==
    /\ pool = "alive"
    /\ capacity = 2
    /\ Len(submitted) = 2
    /\ NoJobPanics
    /\ Count("recv", 2) = 1
    /\ queue = <<>>

\* C19 as stated: the sender is never dropped while a worker is alive that
\* has not yet received a Terminate.
C19_SenderOutlivesWorkers ==
    (channel = "open" /\ ~sender) => Live = {}

\* C19 amended: no receive of a worker fails on a disconnected channel.  The
\* sender is dropped while workers are alive only when drop panics at a join,
\* and then a Terminate is still queued for every live worker.
C19_RecvNeverDisconnected ==
    /\ \A i \in DOMAIN log : log[i].ev # "disconnected"
    /\ \A w \in DOMAIN threads : (threads[w] = "recv" /\ queue = <<>>) => sender
    /\ (channel = "open" /\ ~sender) =>
        Cardinality({i \in DOMAIN queue : queue[i].type = "Terminate"}) >= Cardinality(Live)
    /\ (channel = "open" /\ ~sender /\ Live # {}) => pool \in {"drop_panicked", "aborted"}

C19_Witness ==
    /\ pool = "drop_panicked"
    /\ ~sender
    /\ queue # <<>>
    /\ \E w \in DOMAIN threads : threads[w] = "recv"

\* C20: the channel never holds a job behind a Terminate, and a worker
\* receives a Terminate only when every submitted job has been received, so
\* when the first worker exits no submitted job is left in the queue.
C20_TerminateNeverOvertakes ==
    /\ \A i, k \in DOMAIN queue :
        (i < k /\ queue[i].type = "Terminate") => queue[k].type = "Terminate"
    /\ \A k \in DOMAIN log :
        (log[k].ev = "recv" /\ log[k].id \notin JobIds) =>
            \A j \in JobIds : \E i \in 1..(k - 1) : log[i].ev = "recv" /\ log[i].id = j
    /\ (\E w \in DOMAIN threads : threads[w] = "exited") =>
        \A i \in DOMAIN queue : queue[i].type = "Terminate"

C20_Witness ==
    /\ capacity = 2
    /\ Len(submitted) >= 2
    /\ \E w, v \in DOMAIN threads :
        /\ threads[w] = "exited"
        /\ threads[v] = "running"
    /\ queue # <<>>

====
